---- MODULE Spec2Model ----
(***************************************************************************)
(* Model of slackbot.py: main reads USER_LOCATION, fetches the current     *)
(* weather with one HTTP GET, and sets or clears the Slack status by one   *)
(* users_profile_set call depending on the temperature.                    *)
(*                                                                         *)
(* Python values are records [t |-> type tag, v |-> payload]; a payload is *)
(* only read after its tag has been tested.                                *)
(***************************************************************************)
EXTENDS Integers, Sequences, FiniteSets, TLC

\* ---- bounds -------------------------------------------------------------
MaxRuns == 2          \* invocations of main by the external scheduler
MaxDelta == 1         \* temperatures within Threshold +/- MaxDelta are tried

\* ---- program constants --------------------------------------------------
Threshold == 82

MEETING_TEXT == "In a meeting"
MEETING_EMOJI == ":meeting:"

\* ---- Python / JSON values -----------------------------------------------
None == [t |-> "None", v |-> 0]
Num(n) == [t |-> "num", v |-> n]
Str(s) == [t |-> "str", v |-> s]
List(q) == [t |-> "list", v |-> q]
Dict(f) == [t |-> "dict", v |-> f]
EmptyDict == Dict([k \in {} |-> None])

\* Variant: absence is tested as `x is None`.
Falsy_isnone(x) == x.t = "None"

\* Python truthiness: `not x` is True exactly for these values.
Falsy(x) ==
    \/ x.t = "None"
    \/ x.t = "num" /\ x.v = 0
    \/ x.t = "str" /\ x.v = ""
    \/ x.t = "list" /\ Len(x.v) = 0
    \/ x.t = "dict" /\ DOMAIN x.v = {}

\* x[k] with a string key k: the exception it raises, or "none".
SubscriptFault(x, k) ==
    IF x.t = "dict"
    THEN IF k \in DOMAIN x.v THEN "none" ELSE "KeyError"
    ELSE "TypeError"

\* x > n with an int n: the exception it raises, or "none".
CompareFault(x) == IF x.t = "num" THEN "none" ELSE "TypeError"

\* ---- inputs -------------------------------------------------------------
\* Values of the USER_LOCATION environment variable (None: not set).
Locations == << None, Str(""), Str("Austin"), Str("Oslo") >>

Temps == {70, 85} \cup ((Threshold - MaxDelta) .. (Threshold + MaxDelta))

Weather(x) == Dict([main |-> Dict([temp |-> x])])

\* Parsed JSON bodies the weather endpoint may send.
FixedBodies ==
    << EmptyDict, List(<< >>), None, Num(0), Str(""),
       Dict([cod |-> Num(200)]),
       Dict([main |-> Dict([humidity |-> Num(40)])]),
       Dict([main |-> Str("hot")]),
       List(<< Num(85) >>),
       Weather(Str("85")), Weather(None) >>

\* 300 Multiple Choices is a response requests hands back as it is (no
\* Location header to follow).
StatusCodes == {200, 201, 300, 404, 500}

\* Outcomes of requests.get: a transport error, or a response with a status
\* code and a body that either parses as JSON (valid) or does not.
HttpOutcomes ==
    { [kind |-> "error", status |-> 0, valid |-> FALSE, json |-> None] }
    \cup { [kind |-> "http", status |-> s, valid |-> FALSE, json |-> None] :
             s \in StatusCodes }
    \cup { [kind |-> "http", status |-> s, valid |-> TRUE, json |-> FixedBodies[i]] :
             s \in StatusCodes, i \in 1 .. Len(FixedBodies) }
    \cup { [kind |-> "http", status |-> s, valid |-> TRUE, json |-> Weather(Num(n))] :
             s \in StatusCodes, n \in Temps }

NoResponse == [kind |-> "none", status |-> 0, valid |-> FALSE, json |-> None]

VARIABLES
    pc,             \* position of the run: "main", "get_weather", "check_weather",
                    \* "threshold", "update_slack_status", "done", "raised"
    runs,           \* number of the current invocation of main
    USER_LOCATION,  \* os.environ.get("USER_LOCATION")
    response,       \* outcome of requests.get in this run (NoResponse before)
    weather_data,   \* main's local: what get_weather returned
    temperature,    \* main's local
    status_text,    \* argument main passes to update_slack_status
    calls,          \* external calls made in this run, in order
    log,            \* log records written in this run, in order
    fault,          \* exception that left main uncaught, or "none"
    update_exc,     \* exception users_profile_set raised in this run
                    \* ("none": it succeeded, "": it was not called)
    profile,        \* the user's status on the messaging platform
    sent            \* every profile the program sent to the platform, in order

vars == << pc, runs, USER_LOCATION, response, weather_data, temperature,
           status_text, calls, log, fault, update_exc, profile, sent >>

\* ---- external calls and log records -------------------------------------
GetCall(location) ==
    [op |-> "requests.get", q |-> location, status_text |-> "", status_emoji |-> ""]

\* Variant: the emoji is dropped when the text is empty.
Profile_noemoji(text) ==
    [status_text |-> text,
     status_emoji |-> IF text = "" THEN "" ELSE MEETING_EMOJI]

\* The profile argument of client.users_profile_set (line 35).
Profile(text) == [status_text |-> text, status_emoji |-> MEETING_EMOJI]

ProfileSetCall(text) ==
    [op |-> "users_profile_set", q |-> "",
     status_text |-> Profile(text).status_text,
     status_emoji |-> Profile(text).status_emoji]

Rec(level, msg) == [level |-> level, msg |-> msg]

\* Statuses the user may have on the platform before the first run.
InitialProfiles ==
    { [status_text |-> "", status_emoji |-> ""],
      [status_text |-> MEETING_TEXT, status_emoji |-> MEETING_EMOJI],
      [status_text |-> "Lunch", status_emoji |-> ":pizza:"] }

\* Outcomes of client.users_profile_set: the exception raised ("none" on
\* success) and whether the platform applied the update (a timeout may hit
\* after the platform has applied it).
SlackOutcomes ==
    { [exc |-> "none", applied |-> TRUE],
      [exc |-> "SlackApiError", applied |-> FALSE],
      [exc |-> "URLError", applied |-> FALSE],
      [exc |-> "URLError", applied |-> TRUE] }

Init ==
    /\ pc = "main"
    /\ runs = 1
    /\ \E i \in 1 .. Len(Locations) : USER_LOCATION = Locations[i]
    /\ response = NoResponse
    /\ weather_data = None
    /\ temperature = None
    /\ status_text = None
    /\ calls = << >>
    /\ log = << >>
    /\ fault = "none"
    /\ update_exc = ""
    /\ profile \in InitialProfiles
    /\ sent = << >>

\* ---- get_weather --------------------------------------------------------
\* Variant: only server errors are treated as failures.
RaiseForStatus_5xx(status) == status >= 500 /\ status < 600

\* response.raise_for_status(): raises HTTPError for 4xx and 5xx.
RaiseForStatus(status) == status >= 400 /\ status < 600

\* TRUE when the try block of get_weather raises a RequestException:
\* requests.get fails, raise_for_status raises, or response.json() cannot
\* decode the body (requests.exceptions.JSONDecodeError).
FetchRaises(r) ==
    \/ r.kind = "error"
    \/ r.kind = "http" /\ RaiseForStatus(r.status)
    \/ r.kind = "http" /\ ~r.valid

\* The value get_weather returns for the outcome r of its GET.
GetWeatherReturn(r) == IF FetchRaises(r) THEN None ELSE r.json

\* Variant: a failed GET is retried once before giving up.
get_weather_retry ==
    /\ pc = "get_weather"
    /\ \E r \in HttpOutcomes :
          /\ response' = r
          /\ calls' = IF FetchRaises(r)
                      THEN calls \o << GetCall(USER_LOCATION.v), GetCall(USER_LOCATION.v) >>
                      ELSE Append(calls, GetCall(USER_LOCATION.v))
          /\ weather_data' = GetWeatherReturn(r)
          /\ log' = log \o << Rec("DEBUG", "Fetching weather data from") >>
                        \o (IF FetchRaises(r)
                            THEN << Rec("ERROR", "Error fetching weather data") >>
                            ELSE << Rec("DEBUG", "Weather data") >>)
    /\ pc' = "check_weather"
    /\ UNCHANGED << runs, USER_LOCATION, temperature, status_text, fault,
                    update_exc, profile, sent >>

\* get_weather(USER_LOCATION), called from main.
get_weather ==
    /\ pc = "get_weather"
    /\ \E r \in HttpOutcomes :
          /\ response' = r
          /\ calls' = Append(calls, GetCall(USER_LOCATION.v))
          /\ weather_data' = GetWeatherReturn(r)
          /\ log' = log \o << Rec("DEBUG", "Fetching weather data from") >>
                        \o (IF FetchRaises(r)
                            THEN << Rec("ERROR", "Error fetching weather data") >>
                            ELSE << Rec("DEBUG", "Weather data") >>)
    /\ pc' = "check_weather"
    /\ UNCHANGED << runs, USER_LOCATION, temperature, status_text, fault,
                    update_exc, profile, sent >>

\* ---- update_slack_status ------------------------------------------------
\* Variant: the exception of the profile-update call is re-raised.
UpdateFault_propagates(exc) == exc

\* `except Exception` catches every exception of the profile-update call:
\* the exception that update_slack_status lets through to main.
UpdateFault(exc) == "none"

\* update_slack_status(status_text), the last statement of main.
update_slack_status ==
    /\ pc = "update_slack_status"
    /\ \E o \in SlackOutcomes :
          /\ calls' = Append(calls, ProfileSetCall(status_text.v))
          /\ sent' = Append(sent, Profile(status_text.v))
          /\ profile' = IF o.applied THEN Profile(status_text.v) ELSE profile
          /\ update_exc' = o.exc
          /\ log' = Append(log, IF o.exc = "none"
                                THEN Rec("INFO", "Slack status updated")
                                ELSE Rec("ERROR", "Error updating Slack status"))
          /\ fault' = UpdateFault(o.exc)
          /\ pc' = IF UpdateFault(o.exc) = "none" THEN "done" ELSE "raised"
    /\ UNCHANGED << runs, USER_LOCATION, response, weather_data, temperature,
                    status_text >>

\* ---- main ---------------------------------------------------------------
\* Variant: the location is not checked before the fetch.
main_location_nocheck ==
    /\ pc = "main"
    /\ log' = Append(log, Rec("INFO", "Starting Slackbot..."))
    /\ pc' = "get_weather"
    /\ UNCHANGED << runs, USER_LOCATION, response, weather_data, temperature,
                    status_text, calls, fault, update_exc, profile, sent >>

\* Lines 42-46: read the location, return when it is not set.
main_location ==
    /\ pc = "main"
    /\ IF Falsy(USER_LOCATION)
       THEN /\ log' = log \o << Rec("INFO", "Starting Slackbot..."),
                                Rec("ERROR", "USER_LOCATION not set") >>
            /\ pc' = "done"
       ELSE /\ log' = Append(log, Rec("INFO", "Starting Slackbot..."))
            /\ pc' = "get_weather"
    /\ UNCHANGED << runs, USER_LOCATION, response, weather_data, temperature,
                    status_text, calls, fault, update_exc, profile, sent >>

\* weather_data['main']['temp']: the exception raised, or "none".
ExtractFault(w) ==
    IF SubscriptFault(w, "main") # "none"
    THEN SubscriptFault(w, "main")
    ELSE SubscriptFault(w.v["main"], "temp")

\* Variant: the missing-data branch logs but does not return.
main_check_weather_noreturn ==
    /\ pc = "check_weather"
    /\ IF ExtractFault(weather_data) # "none"
       THEN /\ fault' = ExtractFault(weather_data)
            /\ pc' = "raised"
            /\ log' = IF Falsy(weather_data)
                      THEN Append(log, Rec("ERROR", "Could not retrieve weather data."))
                      ELSE log
            /\ UNCHANGED temperature
       ELSE /\ temperature' = weather_data.v["main"].v["temp"]
            /\ log' = Append(log, Rec("INFO", "Current temperature"))
            /\ pc' = "threshold"
            /\ UNCHANGED fault
    /\ UNCHANGED << runs, USER_LOCATION, response, weather_data, status_text,
                    calls, update_exc, profile, sent >>

\* Lines 49-54: return when get_weather gave nothing, else read the temperature.
main_check_weather ==
    /\ pc = "check_weather"
    /\ IF Falsy(weather_data)
       THEN /\ log' = Append(log, Rec("ERROR", "Could not retrieve weather data."))
            /\ pc' = "done"
            /\ UNCHANGED << temperature, fault >>
       ELSE IF ExtractFault(weather_data) # "none"
       THEN /\ fault' = ExtractFault(weather_data)
            /\ pc' = "raised"
            /\ UNCHANGED << temperature, log >>
       ELSE /\ temperature' = weather_data.v["main"].v["temp"]
            /\ log' = Append(log, Rec("INFO", "Current temperature"))
            /\ pc' = "threshold"
            /\ UNCHANGED fault
    /\ UNCHANGED << runs, USER_LOCATION, response, weather_data, status_text,
                    calls, update_exc, profile, sent >>

\* Variant: the two branches are swapped.
StatusFor_swapped(n) == IF n > Threshold THEN "" ELSE MEETING_TEXT

\* Variant: the comparison is not strict.
StatusFor_ge(n) == IF n >= Threshold THEN MEETING_TEXT ELSE ""

\* The status text main chooses for a numeric temperature (lines 56-59).
StatusFor(n) == IF n > Threshold THEN MEETING_TEXT ELSE ""

\* Lines 56-59: compare with the threshold and pick the status text.
main_threshold ==
    /\ pc = "threshold"
    /\ IF CompareFault(temperature) # "none"
       THEN /\ fault' = CompareFault(temperature)
            /\ pc' = "raised"
            /\ UNCHANGED status_text
       ELSE /\ status_text' = Str(StatusFor(temperature.v))
            /\ pc' = "update_slack_status"
            /\ UNCHANGED fault
    /\ UNCHANGED << runs, USER_LOCATION, response, weather_data, temperature,
                    calls, log, update_exc, profile, sent >>

\* Lines 61-62: the script is run again (by an external scheduler) in a new
\* process: the locals are fresh, the platform keeps the user's status.
Invoke ==
    /\ pc \in {"done", "raised"}
    /\ runs < MaxRuns
    /\ runs' = runs + 1
    /\ \E i \in 1 .. Len(Locations) : USER_LOCATION' = Locations[i]
    /\ pc' = "main"
    /\ response' = NoResponse
    /\ weather_data' = None
    /\ temperature' = None
    /\ status_text' = None
    /\ calls' = << >>
    /\ log' = << >>
    /\ fault' = "none"
    /\ update_exc' = ""
    /\ UNCHANGED << profile, sent >>

Next ==
    \/ main_location
    \/ get_weather
    \/ main_check_weather
    \/ main_threshold
    \/ update_slack_status
    \/ Invoke

Spec == Init /\ [][Next]_vars

\* ---- vocabulary of the properties ---------------------------------------
IsUpdate(c) == c.op = "users_profile_set"
IsGet(c) == c.op = "requests.get"
UpdateCalls == SelectSeq(calls, IsUpdate)
GetCalls == SelectSeq(calls, IsGet)

Logged(level, msg) == \E i \in 1 .. Len(log) : log[i] = Rec(level, msg)
ErrorLogged == \E i \in 1 .. Len(log) : log[i].level = "ERROR"

\* w is a payload with a numeric temperature under main.temp.
HasReading(w) ==
    /\ w.t = "dict"
    /\ "main" \in DOMAIN w.v
    /\ w.v["main"].t = "dict"
    /\ "temp" \in DOMAIN w.v["main"].v
    /\ w.v["main"].v["temp"].t = "num"

Reading(w) == w.v["main"].v["temp"].v

TransportError == response.kind = "error"
Status4xx5xx == response.kind = "http" /\ response.status \in 400 .. 599
StatusNon2xx == response.kind = "http" /\ response.status \notin 200 .. 299
Status2xx == response.kind = "http" /\ response.status \in 200 .. 299

\* ---- properties ---------------------------------------------------------

\* C1: in a run where get_weather returned a reading above 82, main does not
\* fault, no update call carries another text than "In a meeting", and when
\* main has returned exactly one update call was made.
C1_HotSetsMeeting ==
    (HasReading(weather_data) /\ Reading(weather_data) > Threshold) =>
        /\ pc # "raised"
        /\ Len(UpdateCalls) <= 1
        /\ \A i \in 1 .. Len(UpdateCalls) : UpdateCalls[i].status_text = MEETING_TEXT
        /\ (pc = "done" => Len(UpdateCalls) = 1)

\* C1 witness: the 85 degree scenario has run to its end.
C1_Witness ==
    /\ pc = "done"
    /\ HasReading(weather_data) /\ Reading(weather_data) = 85
    /\ UpdateCalls = << ProfileSetCall(MEETING_TEXT) >>

\* C2: in a run where get_weather returned a reading of at most 82, main does
\* not fault, every update call carries the empty text, and when main has
\* returned exactly one update call was made, whatever the status was before.
C2_CoolClearsStatus ==
    (HasReading(weather_data) /\ Reading(weather_data) <= Threshold) =>
        /\ pc # "raised"
        /\ Len(UpdateCalls) <= 1
        /\ \A i \in 1 .. Len(UpdateCalls) : UpdateCalls[i].status_text = ""
        /\ (pc = "done" => Len(UpdateCalls) = 1)

\* C2 witness: a first run (nothing was set by the program before) at exactly
\* 82 degrees has cleared the status.
C2_Witness ==
    /\ pc = "done" /\ runs = 1
    /\ HasReading(weather_data) /\ Reading(weather_data) = Threshold
    /\ UpdateCalls = << ProfileSetCall("") >>
    /\ sent = << Profile("") >>

\* C3 as stated: after a transport error or a non-2xx response no update call
\* is made and an error is logged by the time main returns.
C3_AsStated ==
    (TransportError \/ StatusNon2xx) =>
        /\ Len(UpdateCalls) = 0
        /\ (pc = "done" => ErrorLogged)

\* C3 amended: after a transport error or a 4xx/5xx response main never
\* reaches the status update, does not fault, an error is logged, and main
\* returns after logging that no weather data could be retrieved.
C3_FailedFetchNoUpdate ==
    (TransportError \/ Status4xx5xx) =>
        /\ Len(UpdateCalls) = 0
        /\ ErrorLogged
        /\ pc \in {"check_weather", "done"}
        /\ (pc = "done" => Logged("ERROR", "Could not retrieve weather data."))

\* C3 witness: the HTTP 500 scenario has run to its end without an update.
C3_Witness ==
    /\ pc = "done"
    /\ response.kind = "http" /\ response.status = 500
    /\ Len(UpdateCalls) = 0
    /\ ErrorLogged

\* C4: when USER_LOCATION is not set no external call is made, and the first
\* step of main logs an error and returns.
C4_NoLocationNoCalls ==
    USER_LOCATION.t = "None" =>
        /\ calls = << >>
        /\ (pc # "main" => pc = "done" /\ Logged("ERROR", "USER_LOCATION not set"))

\* C4 witness: a run without a location has returned.
C4_Witness ==
    /\ USER_LOCATION.t = "None"
    /\ pc = "done"
    /\ calls = << >>

\* C5: main never ends by an uncaught exception.
C5_NoUncaughtFault == pc # "raised"

\* C6 as stated: get_weather makes one GET, and after a transport error or a
\* non-2xx response it has logged the failure and returned None.
C6_AsStated ==
    response.kind # "none" =>
        /\ Len(GetCalls) = 1
        /\ (TransportError \/ StatusNon2xx) =>
              weather_data.t = "None" /\ Logged("ERROR", "Error fetching weather data")

\* C6 amended: get_weather makes exactly one GET per call, and after a
\* transport error or a 4xx/5xx response it has logged the failure and
\* returned None without raising.
C6_OneGetNoneOnFailure ==
    response.kind # "none" =>
        /\ Len(GetCalls) = 1
        /\ (TransportError \/ Status4xx5xx) =>
              /\ weather_data.t = "None"
              /\ Logged("ERROR", "Error fetching weather data")
              /\ pc # "raised"

\* C6 witness: get_weather has just returned None after a transport error or
\* an HTTP 404.
C6_Witness ==
    /\ pc = "check_weather"
    /\ TransportError \/ (response.kind = "http" /\ response.status = 404)
    /\ weather_data.t = "None"
    /\ Len(GetCalls) = 1

\* C7: when the profile-update call raised, the error is logged last, main
\* has returned without a fault, and the update was the only call after the
\* GET (no retry, no compensating call).
C7_UpdateFailureContained ==
    update_exc \notin {"", "none"} =>
        /\ pc = "done"
        /\ fault = "none"
        /\ Len(calls) = 2 /\ IsGet(calls[1]) /\ IsUpdate(calls[2])
        /\ log[Len(log)] = Rec("ERROR", "Error updating Slack status")

\* C7 witness: the platform rejected the update and main has returned.
C7_Witness ==
    /\ update_exc = "SlackApiError"
    /\ pc = "done"
    /\ Len(UpdateCalls) = 1

\* C8: a run makes its calls in the order GET, update, each at most once; an
\* update is made only after get_weather returned a reading, and nothing
\* runs after it.
C8_CallOrder ==
    /\ Len(calls) <= 2
    /\ (Len(calls) >= 1 => IsGet(calls[1]))
    /\ (Len(calls) = 2 =>
          /\ IsUpdate(calls[2])
          /\ HasReading(weather_data)
          /\ pc = "done")
    /\ (response.kind = "none" <=> calls = << >>)

\* C8 witness: a run has made both calls.
C8_Witness ==
    /\ Len(calls) = 2
    /\ IsGet(calls[1]) /\ IsUpdate(calls[2])
    /\ pc = "done"

\* C9: every profile sent to the platform, in this run or an earlier one,
\* carries the emoji ":meeting:".
C9_FixedEmoji ==
    /\ \A i \in 1 .. Len(sent) : sent[i].status_emoji = MEETING_EMOJI
    /\ \A i \in 1 .. Len(calls) : IsUpdate(calls[i]) => calls[i].status_emoji = MEETING_EMOJI

\* C9 witness: the program has both set and cleared the status.
C9_Witness ==
    /\ \E i \in 1 .. Len(sent) : sent[i].status_text = MEETING_TEXT
    /\ \E i \in 1 .. Len(sent) : sent[i].status_text = ""

\* Bodies that Python takes for false: {}, [], null, 0, "".
EmptyBody(j) ==
    \/ j.t = "dict" /\ DOMAIN j.v = {}
    \/ j.t = "list" /\ j.v = << >>
    \/ j.t = "None"
    \/ j.t = "num" /\ j.v = 0
    \/ j.t = "str" /\ j.v = ""

\* C10: an empty-string location is handled as a missing one (no call, error
\* logged, return), and a 2xx response whose parsed body is empty is handled
\* as a failed fetch (no update, "Could not retrieve weather data." logged).
C10_FalsyIsAbsent ==
    /\ (USER_LOCATION.t = "str" /\ USER_LOCATION.v = "") =>
          /\ calls = << >>
          /\ (pc # "main" => pc = "done" /\ Logged("ERROR", "USER_LOCATION not set"))
    /\ (Status2xx /\ response.valid /\ EmptyBody(response.json)) =>
          /\ Len(UpdateCalls) = 0
          /\ pc \in {"check_weather", "done"}
          /\ (pc = "done" => Logged("ERROR", "Could not retrieve weather data."))

\* C10 witness: a 200 response with the body {} has ended the run without an
\* update.
C10_Witness ==
    /\ pc = "done"
    /\ response.kind = "http" /\ response.status = 200 /\ response.valid
    /\ response.json.t = "dict" /\ DOMAIN response.json.v = {}
    /\ Len(UpdateCalls) = 0
    /\ Logged("ERROR", "Could not retrieve weather data.")
====
